---- MODULE Spec2Model ----
(***************************************************************************)
(* Duplicate-block discovery of src/src/main.rs: the similarity scorer     *)
(* (test_ranges over strsim::jaro), the range-growth engine                *)
(* (add_row, grow_at_position, grow_ranges) and the sequential driver and  *)
(* output filter of main.                                                  *)
(*                                                                         *)
(* Similarities are exact rationals in units of 1/SimScale; the program    *)
(* computes them in f64.  The thresholds of Thresholds and the lines of    *)
(* LineSet are chosen so that, for ranges of fewer than nine lines, the    *)
(* only means equal to a threshold are ones f64 computes exactly (0, 1/2), *)
(* so the strict comparison of test_ranges agrees with the exact one on    *)
(* every input of the model.                                               *)
(***************************************************************************)
EXTENDS Integers, Sequences, FiniteSets, TLC

\* ------------------------------------------------------------------ bounds
MaxLines == 5
\* the longest document test_ranges is called on directly
MaxTestLines == 3
\* the longest document of the scans over two kinds of lines
MaxLongLines == 8

\* ------------------------------------------------------- inputs of the scan
\* A line is a sequence of characters; " " is whitespace.
LineSet ==
    { <<"a", "b", "c">>,
      <<"d", "e", "f">>,
      <<"d", "e", "g">>,
      <<" ", "a", "b", "c", " ">> }

\* --thres, an f64 given on the command line, as the rational num/den.
Thresholds ==
    { [num |-> 0, den |-> 1],
      [num |-> 1, den |-> 2],
      [num |-> 4, den |-> 5] }

Documents == UNION { [1..n -> LineSet] : n \in 1..MaxLines }

\* ------------------------------------------------------------- arithmetic
Min(x, y) == IF x <= y THEN x ELSE y
Max(x, y) == IF x >= y THEN x ELSE y

RECURSIVE Gcd(_, _)
Gcd(x, y) == IF y = 0 THEN x ELSE Gcd(y, x % y)

RECURSIVE LcmUpTo(_)
LcmUpTo(n) == IF n <= 1 THEN 1
              ELSE LET l == LcmUpTo(n - 1) IN (l * n) \div Gcd(l, n)

\* usize::abs_diff
AbsDiff(x, y) == IF x >= y THEN x - y ELSE y - x

\* ------------------------------------------------------------ str::trim
RECURSIVE TrimStart(_)
TrimStart(s) == IF s # <<>> /\ Head(s) = " " THEN TrimStart(Tail(s)) ELSE s

RECURSIVE TrimEnd(_)
TrimEnd(s) == IF s # <<>> /\ s[Len(s)] = " "
              THEN TrimEnd(SubSeq(s, 1, Len(s) - 1)) ELSE s

Trim(s) == TrimEnd(TrimStart(s))

\* ---------------------------------------------------------- strsim::jaro
MaxLineLen == LET lens == { Len(Trim(l)) : l \in LineSet }
              IN  CHOOSE m \in lens : \A k \in lens : k <= m

\* One third of the unit: every m/len and (m-t)/m is a multiple of 1/SimThird.
SimThird == LcmUpTo(MaxLineLen)
SimScale == 3 * SimThird

\* The flags of b after the characters a[i..] have searched for a match;
\* the result is <<a_flags, b_flags>> as sets of (1-based) indices.
RECURSIVE JaroMatch(_, _, _, _, _, _)
JaroMatch(a, b, range, i, aflags, bflags) ==
    IF i > Len(a) THEN <<aflags, bflags>>
    ELSE LET i0   == i - 1
             lo   == IF i0 > range THEN i0 - range ELSE 0
             hi   == Min(Len(b), i0 + range + 1)
             cand == { j0 \in lo..(hi - 1) :
                         a[i] = b[j0 + 1] /\ (j0 + 1) \notin bflags }
         IN  IF cand = {} THEN JaroMatch(a, b, range, i + 1, aflags, bflags)
             ELSE LET j0 == CHOOSE x \in cand : \A y \in cand : x <= y
                  IN  JaroMatch(a, b, range, i + 1,
                                aflags \cup {i}, bflags \cup {j0 + 1})

\* The flagged characters of s, in order.
RECURSIVE Flagged(_, _, _)
Flagged(s, flags, k) ==
    IF k > Len(s) THEN <<>>
    ELSE (IF k \in flags THEN <<s[k]>> ELSE <<>>) \o Flagged(s, flags, k + 1)

\* jaro(a, b) in units of 1/SimScale.
Jaro(a, b) ==
    IF Len(a) = 0 /\ Len(b) = 0 THEN SimScale
    ELSE IF Len(a) = 0 \/ Len(b) = 0 THEN 0
    ELSE LET range == Max(Max(Len(a), Len(b)) \div 2 - 1, 0)
             fl    == JaroMatch(a, b, range, 1, {}, {})
             m     == Cardinality(fl[1])
             ma    == Flagged(a, fl[1], 1)
             mb    == Flagged(b, fl[2], 1)
             t     == Cardinality({ k \in 1..m : ma[k] # mb[k] }) \div 2
         IN  IF m = 0 THEN 0
             ELSE (SimThird * m) \div Len(a) + (SimThird * m) \div Len(b)
                  + (SimThird * (m - t)) \div m

\* jaro(line1.trim(), line2.trim()) for every pair of lines of the model.
LineSim == [a \in LineSet |-> [b \in LineSet |-> Jaro(Trim(a), Trim(b))]]

\* MeanExceeds with a non-strict comparison.
MeanExceeds_NonStrict(x, n, t) == x * t.den >= t.num * n * SimScale

\* x / n > thres, for x in units of 1/SimScale.
MeanExceeds(x, n, t) == x * t.den > t.num * n * SimScale


\* ------------------------------------------------------------ LineRange
LineRange(s, e) == [start |-> s, end |-> e]

Positions == {"Start", "End"}

\* ---------------------------------------------------------- test_ranges
\* SimSum over slices that leave out the last line of each range
\* (start..end for start..=end).
RECURSIVE SimSum_SkipLast(_, _, _, _)
SimSum_SkipLast(range1, range2, lines, k) ==
    IF k >= range1.end - range1.start THEN 0
    ELSE LineSim[lines[range1.start + k + 1]][lines[range2.start + k + 1]]
         + SimSum_SkipLast(range1, range2, lines, k + 1)

\* The sum of the similarities of the corresponding lines of two ranges of
\* n lines each (lines is 1-based, the ranges are 0-based).
RECURSIVE SimSum(_, _, _, _)
SimSum(range1, range2, lines, k) ==
    IF k > range1.end - range1.start THEN 0
    ELSE LineSim[lines[range1.start + k + 1]][lines[range2.start + k + 1]]
         + SimSum(range1, range2, lines, k + 1)

\* raw_lines[range.start..=range.end] does not panic.
SliceOk(range, lines) ==
    /\ 0 <= range.start
    /\ range.start <= range.end + 1
    /\ range.end < Len(lines)

\* TestRanges without the check of the lengths: zip stops at the shorter
\* slice and the sum is divided by the length of range1.
TestRanges_NoLengthCheck(range1, range2, lines, t) ==
    LET n     == range1.end - range1.start + 1
        m     == Min(n, range2.end - range2.start + 1)
        short == LineRange(range1.start, range1.start + m - 1)
    IN  IF ~SliceOk(range1, lines) \/ ~SliceOk(range2, lines) THEN "panic"
        ELSE IF MeanExceeds(SimSum(short, range2, lines, 0), n, t) THEN "true"
        ELSE "false"

\* "true", "false", or "panic" for the fatal outcomes.
TestRanges(range1, range2, lines, t) ==
    LET n == range1.end - range1.start + 1
    IN  IF (range2.end - range2.start + 1) # n THEN "panic"
        ELSE IF ~SliceOk(range1, lines) \/ ~SliceOk(range2, lines)
             THEN "panic"
        ELSE IF MeanExceeds(SimSum(range1, range2, lines, 0), n, t)
             THEN "true"
        ELSE "false"

\* -------------------------------------------------------------- add_row
AddRow(range, pos) ==
    [start |-> IF pos = "Start" THEN range.start - 1 ELSE range.start,
     end   |-> IF pos = "Start" THEN range.end ELSE range.end + 1]

\* ----------------------------------------------------- grow_at_position
\* Condition with the start-side bound off by one.
Condition_OffByOne(range1, range2, pos, n_lines) ==
    IF pos = "Start"
    THEN (range1.start >= 0) /\ (range2.start >= 0)
    ELSE (range1.end < (n_lines - 1)) /\ (range2.end < (n_lines - 1))

\* The bound check of grow_at_position.
Condition(range1, range2, pos, n_lines) ==
    IF pos = "Start"
    THEN (range1.start >= 1) /\ (range2.start >= 1)
    ELSE (range1.end < (n_lines - 1)) /\ (range2.end < (n_lines - 1))

\* Contains that never looks at the first element.
Contains_SkipFirst(vis, pair) == \E k \in 2..Len(vis) : vis[k] = pair

\* Vec::contains
Contains(vis, pair) == \E k \in 1..Len(vis) : vis[k] = pair

NoTrial == <<>>

\* GrowAtPosition without the lookup in visited.
GrowAtPosition_NoLookup(r1, r2, lines, t, vis, pos, n_lines) ==
    LET trial == <<AddRow(r1, pos), AddRow(r2, pos)>>
        test  == IF Condition(r1, r2, pos, n_lines)
                 THEN TestRanges(trial[1], trial[2], lines, t) ELSE "none"
    IN  [kind    |-> IF test = "panic" THEN "Panic" ELSE "Some",
         grew    |-> test = "true",
         range1  |-> IF test = "true" THEN trial[1] ELSE r1,
         range2  |-> IF test = "true" THEN trial[2] ELSE r2,
         visited |-> IF test = "true" THEN Append(vis, trial) ELSE vis,
         trial   |-> IF test = "none" THEN NoTrial ELSE trial,
         test    |-> test]

\* GrowAtPosition with only range1 given the new row.
GrowAtPosition_OneRow(r1, r2, lines, t, vis, pos, n_lines) ==
    LET trial == <<AddRow(r1, pos), r2>>
        test  == IF Condition(r1, r2, pos, n_lines)
                 THEN TestRanges(trial[1], trial[2], lines, t) ELSE "none"
        seen  == test = "true" /\ Contains(vis, trial)
        grew  == test = "true" /\ ~seen
    IN  [kind    |-> IF test = "panic" THEN "Panic"
                     ELSE IF seen THEN "None" ELSE "Some",
         grew    |-> grew,
         range1  |-> IF grew THEN trial[1] ELSE r1,
         range2  |-> IF grew THEN trial[2] ELSE r2,
         visited |-> IF grew THEN Append(vis, trial) ELSE vis,
         trial   |-> IF test = "none" THEN NoTrial ELSE trial,
         test    |-> test]

\* GrowAtPosition signalling "grew" when the bound check fails.
GrowAtPosition_GrewAtBound(r1, r2, lines, t, vis, pos, n_lines) ==
    LET trial == <<AddRow(r1, pos), AddRow(r2, pos)>>
        test  == IF Condition(r1, r2, pos, n_lines)
                 THEN TestRanges(trial[1], trial[2], lines, t) ELSE "none"
        seen  == test = "true" /\ Contains(vis, trial)
        grew  == test = "true" /\ ~seen
    IN  [kind    |-> IF test = "panic" THEN "Panic"
                     ELSE IF seen THEN "None" ELSE "Some",
         grew    |-> grew \/ test = "none",
         range1  |-> IF grew THEN trial[1] ELSE r1,
         range2  |-> IF grew THEN trial[2] ELSE r2,
         visited |-> IF grew THEN Append(vis, trial) ELSE vis,
         trial   |-> IF test = "none" THEN NoTrial ELSE trial,
         test    |-> test]

\* GrowAtPosition pushing the trial pair before it is tested.
GrowAtPosition_PushFirst(r1, r2, lines, t, vis, pos, n_lines) ==
    LET trial == <<AddRow(r1, pos), AddRow(r2, pos)>>
        test  == IF Condition(r1, r2, pos, n_lines)
                 THEN TestRanges(trial[1], trial[2], lines, t) ELSE "none"
        seen  == test = "true" /\ Contains(vis, trial)
        grew  == test = "true" /\ ~seen
    IN  [kind    |-> IF test = "panic" THEN "Panic"
                     ELSE IF seen THEN "None" ELSE "Some",
         grew    |-> grew,
         range1  |-> IF grew THEN trial[1] ELSE r1,
         range2  |-> IF grew THEN trial[2] ELSE r2,
         visited |-> IF grew \/ test = "false" THEN Append(vis, trial)
                     ELSE vis,
         trial   |-> IF test = "none" THEN NoTrial ELSE trial,
         test    |-> test]

\* GrowAtPosition answering "did not grow" instead of None when the trial
\* pair is already in visited.
GrowAtPosition_NoAbort(r1, r2, lines, t, vis, pos, n_lines) ==
    LET trial == <<AddRow(r1, pos), AddRow(r2, pos)>>
        test  == IF Condition(r1, r2, pos, n_lines)
                 THEN TestRanges(trial[1], trial[2], lines, t) ELSE "none"
        grew  == test = "true" /\ ~Contains(vis, trial)
    IN  [kind    |-> IF test = "panic" THEN "Panic" ELSE "Some",
         grew    |-> grew,
         range1  |-> IF grew THEN trial[1] ELSE r1,
         range2  |-> IF grew THEN trial[2] ELSE r2,
         visited |-> IF grew THEN Append(vis, trial) ELSE vis,
         trial   |-> IF test = "none" THEN NoTrial ELSE trial,
         test    |-> test]

\* GrowAtPosition giving range2 its new row at the opposite side.
GrowAtPosition_MixedSides(r1, r2, lines, t, vis, pos, n_lines) ==
    LET other == IF pos = "Start" THEN "End" ELSE "Start"
        trial == <<AddRow(r1, pos), AddRow(r2, other)>>
        test  == IF Condition(r1, r2, pos, n_lines)
                    /\ Condition(r1, r2, other, n_lines)
                 THEN TestRanges(trial[1], trial[2], lines, t) ELSE "none"
        seen  == test = "true" /\ Contains(vis, trial)
        grew  == test = "true" /\ ~seen
    IN  [kind    |-> IF test = "panic" THEN "Panic"
                     ELSE IF seen THEN "None" ELSE "Some",
         grew    |-> grew,
         range1  |-> IF grew THEN trial[1] ELSE r1,
         range2  |-> IF grew THEN trial[2] ELSE r2,
         visited |-> IF grew THEN Append(vis, trial) ELSE vis,
         trial   |-> IF test = "none" THEN NoTrial ELSE trial,
         test    |-> test]

\* The result of one call: kind is "Some", "None" or "Panic"; visited is the
\* vector after the call; trial and test record the trial pair the call built
\* and what test_ranges said of it.
GrowAtPosition(r1, r2, lines, t, vis, pos, n_lines) ==
    LET unchanged(test, trial) ==
            [kind |-> "Some", grew |-> FALSE, range1 |-> r1, range2 |-> r2,
             visited |-> vis, trial |-> trial, test |-> test]
    IN  IF ~Condition(r1, r2, pos, n_lines) THEN unchanged("none", NoTrial)
        ELSE LET trial_range1 == AddRow(r1, pos)
                 trial_range2 == AddRow(r2, pos)
                 trial        == <<trial_range1, trial_range2>>
                 test         == TestRanges(trial_range1, trial_range2, lines, t)
             IN  IF test = "panic"
                 THEN [unchanged(test, trial) EXCEPT !.kind = "Panic"]
                 ELSE IF test = "false" THEN unchanged(test, trial)
                 ELSE IF Contains(vis, trial)
                 THEN [unchanged(test, trial) EXCEPT !.kind = "None"]
                 ELSE [kind |-> "Some", grew |-> TRUE,
                       range1 |-> trial_range1, range2 |-> trial_range2,
                       visited |-> Append(vis, trial),
                       trial |-> trial, test |-> test]

\* ---------------------------------------------------------- grow_ranges
\* Adjacent comparing the distances with 0 instead of 1.
Adjacent_Zero(r1, r2) ==
    (AbsDiff(r1.end, r2.start) = 0) \/ (AbsDiff(r1.start, r2.end) = 0)

\* The degenerate check at the head of grow_ranges.
Adjacent(r1, r2) ==
    (AbsDiff(r1.end, r2.start) = 1) \/ (AbsDiff(r1.start, r2.end) = 1)

\* ----------------------------------------------------------------- main
\* The seed test of the driver: jaro of the two trimmed lines against thres.
SeedSimilar(lines, a, b, t) ==
    MeanExceeds(LineSim[lines[a + 1]][lines[b + 1]], 1, t)

\* The leaves the output stage prints.
MinPrintLen == 5

\* Printed with a strict comparison.
Printed_Strict(lvs) ==
    SelectSeq(lvs, LAMBDA p : (p[2].end - p[2].start) > MinPrintLen)

Printed(lvs) == SelectSeq(lvs, LAMBDA p : (p[2].end - p[2].start) >= MinPrintLen)

\* ---------------------------------------------------------------- state
VARIABLES
    raw_lines,      \* the document
    thres,          \* the threshold
    visited,        \* Vec of pairs
    leaves,         \* Vec of pairs
    i, j,           \* the pair of lines the driver is at
    pc,             \* "scan", "grow", "done", "exit", "panic", "test"
    range1, range2, \* the current ranges of grow_ranges
    position,       \* the side the next growth step tries
    grew_both,
    trial,          \* the trial pair of the last growth step
    test,           \* the outcome of the last test_ranges call
    outcome,        \* how the last grow_ranges call ended
    visited_in,     \* visited and leaves as the running or last
    leaves_in,      \*   grow_ranges call received them
    printed         \* what the output stage printed

vars == <<raw_lines, thres, visited, leaves, i, j, pc, range1, range2,
          position, grew_both, trial, test, outcome, visited_in, leaves_in,
          printed>>

n_lines == Len(raw_lines)

NoRange == LineRange(0, 0)

Init ==
    /\ raw_lines \in Documents
    /\ thres \in Thresholds
    /\ visited = <<>>
    /\ leaves = <<>>
    /\ i = 0
    /\ j = 1
    /\ pc = IF Len(raw_lines) >= 2 THEN "scan" ELSE "done"
    /\ range1 = NoRange
    /\ range2 = NoRange
    /\ position = "Start"
    /\ grew_both = TRUE
    /\ trial = NoTrial
    /\ test = "none"
    /\ outcome = "None"
    /\ visited_in = <<>>
    /\ leaves_in = <<>>
    /\ printed = <<>>

\* The driver moves on to the pair after (i, j), or ends the scan.
NextPair ==
    IF j + 1 < n_lines THEN /\ i' = i /\ j' = j + 1 /\ pc' = "scan"
    ELSE IF i + 2 < n_lines THEN /\ i' = i + 1 /\ j' = i + 2 /\ pc' = "scan"
    ELSE /\ i' = i /\ j' = j /\ pc' = "done"

\* The pair (i, j) is not similar enough: no grow_ranges call.
SkipPair ==
    /\ pc = "scan"
    /\ ~SeedSimilar(raw_lines, i, j, thres)
    /\ NextPair
    /\ UNCHANGED <<raw_lines, thres, visited, leaves, range1, range2,
                   position, grew_both, trial, test, outcome, visited_in,
                   leaves_in, printed>>

\* grow_ranges on the seed (i, j) returns at its degenerate check.
DegenerateSeed ==
    /\ pc = "scan"
    /\ SeedSimilar(raw_lines, i, j, thres)
    /\ Adjacent(LineRange(i, i), LineRange(j, j))
    /\ range1' = LineRange(i, i)
    /\ range2' = LineRange(j, j)
    /\ outcome' = "Degenerate"
    /\ visited_in' = visited
    /\ leaves_in' = leaves
    /\ trial' = NoTrial
    /\ test' = "none"
    /\ NextPair
    /\ UNCHANGED <<raw_lines, thres, visited, leaves, position, grew_both,
                   printed>>

\* grow_ranges on the seed (i, j) enters its loop.
StartGrowth ==
    /\ pc = "scan"
    /\ SeedSimilar(raw_lines, i, j, thres)
    /\ ~Adjacent(LineRange(i, i), LineRange(j, j))
    /\ range1' = LineRange(i, i)
    /\ range2' = LineRange(j, j)
    /\ position' = "Start"
    /\ grew_both' = TRUE
    /\ outcome' = "None"
    /\ visited_in' = visited
    /\ leaves_in' = leaves
    /\ trial' = NoTrial
    /\ test' = "none"
    /\ pc' = "grow"
    /\ UNCHANGED <<raw_lines, thres, visited, leaves, i, j, printed>>

\* LeavesAfter with the early return replaced by a break: the current ranges
\* are pushed on the abort too.
LeavesAfter_BreakOnAbort(lvs, res, pos, both_so_far) ==
    IF res.kind = "None"
       \/ (res.kind = "Some" /\ pos = "End" /\ ~(both_so_far /\ res.grew))
    THEN Append(lvs, <<res.range1, res.range2>>)
    ELSE lvs

\* LeavesAfter pushing the current ranges only if the end step grew.
LeavesAfter_IfEndGrew(lvs, res, pos, both_so_far) ==
    IF res.kind = "Some" /\ pos = "End" /\ ~both_so_far /\ res.grew
    THEN Append(lvs, <<res.range1, res.range2>>)
    ELSE lvs

\* LeavesAfter pushing the current ranges at the end of every round.
LeavesAfter_EveryRound(lvs, res, pos, both_so_far) ==
    IF res.kind = "Some" /\ pos = "End"
    THEN Append(lvs, <<res.range1, res.range2>>)
    ELSE lvs

\* leaves after the loop of grow_ranges has handled the result res of the
\* grow_at_position call at side pos: the current ranges are pushed when the
\* round ends without both sides having grown, and nothing is pushed on the
\* early return.
LeavesAfter(lvs, res, pos, both_so_far) ==
    IF res.kind = "Some" /\ pos = "End" /\ ~(both_so_far /\ res.grew)
    THEN Append(lvs, <<res.range1, res.range2>>)
    ELSE lvs

\* One grow_at_position call of the loop of grow_ranges and what the loop
\* does with its result.
GrowStep ==
    /\ pc = "grow"
    /\ LET res  == GrowAtPosition(range1, range2, raw_lines, thres, visited,
                                  position, n_lines)
           both == grew_both /\ res.grew
       IN  /\ trial' = res.trial
           /\ test' = res.test
           /\ visited' = res.visited
           /\ leaves' = LeavesAfter(leaves, res, position, grew_both)
           /\ IF res.kind = "Panic"
              THEN /\ pc' = "panic"
                   /\ UNCHANGED <<i, j, range1, range2, position, grew_both,
                                  outcome>>
              ELSE IF res.kind = "None"
              THEN /\ outcome' = "Aborted"
                   /\ NextPair
                   /\ UNCHANGED <<range1, range2, position, grew_both>>
              ELSE /\ range1' = res.range1
                   /\ range2' = res.range2
                   /\ IF position = "Start"
                      THEN /\ position' = "End"
                           /\ grew_both' = both
                           /\ UNCHANGED <<i, j, pc, outcome>>
                      ELSE IF both
                      THEN /\ position' = "Start"
                           /\ grew_both' = TRUE
                           /\ UNCHANGED <<i, j, pc, outcome>>
                      ELSE /\ outcome' = "Leaf"
                           /\ grew_both' = both
                           /\ NextPair
                           /\ UNCHANGED position
    /\ UNCHANGED <<raw_lines, thres, visited_in, leaves_in, printed>>

\* The output stage.
Output ==
    /\ pc = "done"
    /\ printed' = Printed(leaves)
    /\ pc' = "exit"
    /\ UNCHANGED <<raw_lines, thres, visited, leaves, i, j, range1, range2,
                   position, grew_both, trial, test, outcome, visited_in,
                   leaves_in>>

Next == SkipPair \/ DegenerateSeed \/ StartGrowth \/ GrowStep \/ Output

Spec == Init /\ [][Next]_vars

\* ------------------------------------------- test_ranges called directly
\* test_ranges as a unit: any document, threshold and pair of line ranges,
\* the ranges reaching at most one line past the document.
TestDocuments == UNION { [1..n -> LineSet] : n \in 1..MaxTestLines }

TestRangeSet(lines) ==
    { LineRange(se[1], se[2]) :
        se \in { x \in (0..Len(lines)) \X (0..Len(lines)) : x[1] <= x[2] } }

InitTest ==
    /\ raw_lines \in TestDocuments
    /\ thres \in Thresholds
    /\ range1 \in TestRangeSet(raw_lines)
    /\ range2 \in TestRangeSet(raw_lines)
    /\ pc = "test"
    /\ visited = <<>>
    /\ leaves = <<>>
    /\ i = 0
    /\ j = 1
    /\ position = "Start"
    /\ grew_both = TRUE
    /\ trial = NoTrial
    /\ test = "none"
    /\ outcome = "None"
    /\ visited_in = <<>>
    /\ leaves_in = <<>>
    /\ printed = <<>>

CallTestRanges ==
    /\ pc = "test"
    /\ test' = TestRanges(range1, range2, raw_lines, thres)
    /\ pc' = IF test' = "panic" THEN "panic" ELSE "tested"
    /\ UNCHANGED <<raw_lines, thres, visited, leaves, i, j, range1, range2,
                   position, grew_both, trial, outcome, visited_in,
                   leaves_in, printed>>

NextTest == CallTestRanges

SpecTestRanges == InitTest /\ [][NextTest]_vars

\* ------------------------------------------------ scans of long documents
\* The scan of main over longer documents made of two kinds of lines, long
\* enough for a call to abort after it has grown and for a leaf to be
\* printed.
LongLineSet == { <<"a", "b", "c">>, <<"d", "e", "f">> }

LongDocuments == UNION { [1..n -> LongLineSet] : n \in 1..MaxLongLines }

\* The thresholds of these scans: 1/2 and 4/5.
LongThresholds == { t \in Thresholds : t.num > 0 }

InitLong ==
    /\ raw_lines \in LongDocuments
    /\ thres \in LongThresholds
    /\ visited = <<>>
    /\ leaves = <<>>
    /\ i = 0
    /\ j = 1
    /\ pc = IF Len(raw_lines) >= 2 THEN "scan" ELSE "done"
    /\ range1 = NoRange
    /\ range2 = NoRange
    /\ position = "Start"
    /\ grew_both = TRUE
    /\ trial = NoTrial
    /\ test = "none"
    /\ outcome = "None"
    /\ visited_in = <<>>
    /\ leaves_in = <<>>
    /\ printed = <<>>

SpecLong == InitLong /\ [][Next]_vars

\* =================================================================== claims

Pairs(seq) == { seq[k] : k \in 1..Len(seq) }
LastLeaf == leaves[Len(leaves)]
RangeLen(r) == r.end - r.start

\* C1: the entries of leaves are pairwise distinct, and the leaf a
\* grow_ranges call appends was not in visited when the call started.
C1_LeavesDistinct ==
    /\ \A a, b \in 1..Len(leaves) : a # b => leaves[a] # leaves[b]
    /\ (outcome = "Leaf" => ~Contains(visited_in, LastLeaf))

\* A grown leaf recorded by a call that found visited and leaves non-empty.
C1_Witness ==
    /\ outcome = "Leaf"
    /\ Len(leaves_in) >= 1
    /\ Len(visited_in) >= 1
    /\ Contains(visited, LastLeaf)

\* C2: the two ranges of every leaf are disjoint, range1.end < range2.start.
C2_LeavesDisjoint ==
    \A k \in 1..Len(leaves) : leaves[k][1].end < leaves[k][2].start

\* A pair can be extended at side pos: the extension is inside the document
\* and passes the aggregate similarity test.
Extendable(pair, pos) ==
    /\ Condition(pair[1], pair[2], pos, n_lines)
    /\ TestRanges(AddRow(pair[1], pos), AddRow(pair[2], pos), raw_lines, thres)
         = "true"

\* C3: every leaf is maximal: it can be extended at neither side.
C3_LeavesMaximal ==
    \A k \in 1..Len(leaves) : \A pos \in Positions : ~Extendable(leaves[k], pos)

InDocument(r) == 0 <= r.start /\ r.start <= r.end /\ r.end <= n_lines - 1

\* C4: every trial range, every range of visited and of leaves and the
\* current ranges lie inside the document, and no step fails fatally.
C4_InBounds ==
    /\ \A p \in Pairs(visited) \cup Pairs(leaves) :
          InDocument(p[1]) /\ InDocument(p[2])
    /\ (trial # NoTrial => InDocument(trial[1]) /\ InDocument(trial[2]))
    /\ (pc = "grow" => InDocument(range1) /\ InDocument(range2))
    /\ test # "panic"
    /\ pc # "panic"

\* A leaf that grew until it touched both ends of the document, the last
\* growth attempt having been stopped by the bound check.
C4_Witness ==
    /\ outcome = "Leaf"
    /\ LastLeaf[1].start = 0
    /\ LastLeaf[2].end = n_lines - 1
    /\ RangeLen(LastLeaf[1]) >= 1
    /\ trial = NoTrial

EqualLen(p) == RangeLen(p[1]) = RangeLen(p[2])

\* C5: the current ranges, every trial pair and every pair of visited and
\* leaves have equal length, and test_ranges never fails fatally in a scan.
C5_EqualLength ==
    /\ \A p \in Pairs(visited) \cup Pairs(leaves) : EqualLen(p)
    /\ (trial # NoTrial => EqualLen(trial))
    /\ EqualLen(<<range1, range2>>)
    /\ test # "panic"
    /\ pc # "panic"

\* A pair of three-line ranges has been tested and recorded.
C5_Witness ==
    /\ trial # NoTrial
    /\ RangeLen(trial[1]) >= 2
    /\ test = "true"
    /\ Contains(visited, trial)

\* C6: test_ranges on two ranges of different length ends in the fatal
\* outcome and returns neither true nor false.
C6_MismatchPanics ==
    (pc # "test" /\ RangeLen(range1) # RangeLen(range2))
        => (test = "panic" /\ pc = "panic")

\* Two ranges of different length, both inside the document, were tested.
C6_Witness ==
    /\ pc = "panic"
    /\ RangeLen(range1) # RangeLen(range2)
    /\ SliceOk(range1, raw_lines)
    /\ SliceOk(range2, raw_lines)

\* C7: grow_ranges on an adjacent seed ([i,i], [i+1,i+1]) returns at once:
\* no growth step is attempted and visited and leaves are unchanged.
C7_AdjacentSeedNoGrowth ==
    [][(pc = "scan" /\ j = i + 1 /\ SeedSimilar(raw_lines, i, j, thres))
         => /\ visited' = visited
            /\ leaves' = leaves
            /\ trial' = NoTrial
            /\ outcome' = "Degenerate"
            /\ pc' # "grow"]_vars

\* An adjacent seed was rejected in a scan that had already recorded pairs.
C7_Witness ==
    /\ outcome = "Degenerate"
    /\ range2.start = range1.end + 1
    /\ Len(visited) >= 1
    /\ Len(leaves) >= 1
    /\ visited = visited_in
    /\ leaves = leaves_in

Doc8 == << <<"a", "b", "c">>, <<"d", "e", "f">>,
           <<"a", "b", "c">>, <<"d", "e", "g">> >>
Thres8 == [num |-> 4, den |-> 5]
Pair8 == <<LineRange(0, 1), LineRange(2, 3)>>
IsExample8 == raw_lines = Doc8 /\ thres = Thres8

\* C8: on ["abc","def","abc","deg"] with threshold 0.8, the end-side step
\* from ([0,0],[2,2]) with empty visited leaves visited = [([0,1],[2,3])],
\* and grow_ranges from that seed, entered with visited and leaves empty,
\* ends with visited = leaves = [([0,1],[2,3])], the sole leaf of the scan.
C8_Example ==
    /\ [](IsExample8 =>
            /\ (i = 0 /\ j = 2 /\ pc = "grow"
                  => visited_in = <<>> /\ leaves_in = <<>>)
            /\ (i > 0 \/ j > 2 \/ pc \in {"done", "exit"}
                  => visited = <<Pair8>> /\ leaves = <<Pair8>>))
    /\ [][(/\ IsExample8
           /\ pc = "grow"
           /\ position = "End"
           /\ range1 = LineRange(0, 0)
           /\ range2 = LineRange(2, 2)
           /\ visited = <<>>)
            => visited' = <<Pair8>>]_vars

\* The scan of the example has ended with the one leaf.
C8_Witness ==
    /\ IsExample8
    /\ pc = "exit"
    /\ leaves = <<Pair8>>
    /\ visited = <<Pair8>>

\* The mean similarity of the corresponding lines of a pair strictly
\* exceeds thres.
StrictlySimilar(p) ==
    LET n == RangeLen(p[1]) + 1
    IN  SimSum(p[1], p[2], raw_lines, 0) * thres.den > thres.num * n * SimScale

\* C9: the mean similarity of every leaf strictly exceeds thres.
C9_LeavesSimilar ==
    \A k \in 1..Len(leaves) : EqualLen(leaves[k]) /\ StrictlySimilar(leaves[k])

\* A leaf of several lines one of whose line pairs alone is not similar
\* enough: the leaf passes on the mean only.
C9_Witness ==
    \E k \in 1..Len(leaves) :
        /\ RangeLen(leaves[k][1]) >= 1
        /\ \E d \in 0..RangeLen(leaves[k][1]) :
              ~SeedSimilar(raw_lines, leaves[k][1].start + d,
                           leaves[k][2].start + d, thres)

\* C10: a grow_ranges call appends nothing while it runs, nothing when it
\* ends at the degenerate check or on an abort, and exactly its current
\* ranges otherwise.
C10_OneLeafPerSeed ==
    /\ pc # "panic"
    /\ outcome \in {"None", "Degenerate", "Aborted", "Leaf"}
    /\ (pc = "grow" => outcome = "None")
    /\ (outcome \in {"None", "Degenerate", "Aborted"} => leaves = leaves_in)
    /\ (outcome = "Leaf" => leaves = Append(leaves_in, <<range1, range2>>))

\* A call aborted on a passing trial pair found in visited, in a scan that
\* already had a leaf.
C10_Witness ==
    /\ outcome = "Aborted"
    /\ test = "true"
    /\ Contains(visited, trial)
    /\ Len(leaves) >= 1
    /\ leaves = leaves_in

\* The indices of the leaves of six or more lines.
LongLeaves ==
    { k \in 1..Len(leaves) :
        RangeLen(leaves[k][1]) >= 5 /\ RangeLen(leaves[k][2]) >= 5 }

Round == range1.end - i + 1

\* The pairs of lines the driver has not finished, (i, j) included.
PairsLeft ==
    Cardinality({ p \in (0..n_lines - 1) \X (0..n_lines - 1) :
                    /\ p[1] < p[2]
                    /\ (p[1] > i \/ (p[1] = i /\ p[2] >= j)) })

\* A bound on the steps left: 2 * n_lines + 1 for every unfinished pair, of
\* which a running call has left two per round it can still make, and one
\* for the output stage.
StepsLeft ==
    IF pc = "scan" THEN PairsLeft * (2 * n_lines + 1) + 1
    ELSE IF pc = "grow"
    THEN (PairsLeft - 1) * (2 * n_lines + 1)
         + 2 * (n_lines - Round + 1) - (IF position = "End" THEN 1 ELSE 0) + 1
    ELSE IF pc = "done" THEN 1
    ELSE 0

\* C12: every grow_ranges call ends and the scan ends: the loop runs at most
\* n_lines rounds, every step of the scan lowers the natural number
\* StepsLeft, which is 0 only once the scan has exited, and a call that is
\* left has ended as Leaf or Aborted.
C12_Terminates ==
    /\ [](/\ StepsLeft >= 0
          /\ (StepsLeft = 0 <=> pc = "exit")
          /\ pc \in {"scan", "grow", "done", "exit"}
          /\ (pc = "grow" => Round >= 1 /\ Round <= n_lines))
    /\ [][/\ StepsLeft' < StepsLeft
          /\ (pc = "grow" /\ pc' # "grow" => outcome' \in {"Leaf", "Aborted"})]_vars

\* A call in its third round.
C12_Witness ==
    /\ pc = "grow"
    /\ Round >= 3

\* C13: every pair of leaves is an element of visited.
C13_LeavesInVisited ==
    \A k \in 1..Len(leaves) : Contains(visited, leaves[k])

\* The end-side step about to be taken grows the ranges, and the grown pair
\* can be extended at the end once more.
EndStepGrows ==
    LET res == GrowAtPosition(range1, range2, raw_lines, thres, visited,
                              "End", n_lines)
    IN  res.grew /\ Extendable(<<res.range1, res.range2>>, "End")

\* The end-side step about to be taken fails the similarity test, and the
\* current pair can be extended at the start once more.
EndStepFailsTest ==
    /\ GrowAtPosition(range1, range2, raw_lines, thres, visited, "End",
                      n_lines).test = "false"
    /\ Extendable(<<range1, range2>>, "Start")

\* C14: a failed similarity test on one side does not stop growth on the
\* other: when in a round one side fails the test and the other side grows
\* and can grow again, the loop of grow_ranges runs a further round for the
\* same seed.
C14_OtherSideContinues ==
    [][(/\ pc = "grow"
        /\ position = "End"
        /\ \/ (test = "false" /\ EndStepGrows)
           \/ (test = "true" /\ grew_both /\ EndStepFailsTest))
         => (pc' = "grow" /\ i' = i /\ j' = j)]_vars

\* The pair a growth step at side pos builds from the current ranges.
TrialAt(pos) ==
    IF pos = "Start"
    THEN <<LineRange(range1.start - 1, range1.end),
           LineRange(range2.start - 1, range2.end)>>
    ELSE <<LineRange(range1.start, range1.end + 1),
           LineRange(range2.start, range2.end + 1)>>

\* The bound check of the step at side pos passes.
InsideAt(pos) ==
    IF pos = "Start"
    THEN range1.start >= 1 /\ range2.start >= 1
    ELSE range1.end < n_lines - 1 /\ range2.end < n_lines - 1

\* The step at side pos passes the bound check and the similarity test.
PassesAt(pos) == InsideAt(pos) /\ StrictlySimilar(TrialAt(pos))

\* C15: a growth step whose bound check or similarity test fails leaves
\* visited and the ranges unchanged and signals "did not grow"; one whose
\* trial pair passes and is not in visited appends exactly that pair to
\* visited, returns the trial ranges and signals "grew"; the step itself
\* leaves leaves alone (only the loop, at the end of a round, appends the
\* ranges the step returned).
C15_StepFrame ==
    [][pc = "grow" =>
         /\ (~PassesAt(position) =>
                /\ visited' = visited
                /\ range1' = range1 /\ range2' = range2
                /\ ~grew_both')
         /\ (PassesAt(position) /\ ~Contains(visited, TrialAt(position)) =>
                /\ visited' = Append(visited, TrialAt(position))
                /\ range1' = TrialAt(position)[1]
                /\ range2' = TrialAt(position)[2]
                /\ (position = "Start" => grew_both')
                /\ (position = "End" /\ grew_both => pc' = "grow"))
         /\ (position = "Start" => leaves' = leaves)
         /\ leaves' \in {leaves, Append(leaves, <<range1', range2'>>)}]_vars

\* A step appended its trial pair to a visited that already held pairs, in
\* a scan with a leaf that has an extension inside the document which fails
\* the similarity test.
C15_Witness ==
    /\ test = "true"
    /\ Len(visited) >= 3
    /\ visited[Len(visited)] = trial
    /\ range1 = trial[1]
    /\ \E k \in 1..Len(leaves) :
          \E pos \in Positions :
             /\ Condition(leaves[k][1], leaves[k][2], pos, n_lines)
             /\ ~Extendable(leaves[k], pos)

\* visited_in is a prefix of visited.
KeepsEarlier(old, new) ==
    Len(old) <= Len(new) /\ \A k \in 1..Len(old) : new[k] = old[k]

\* C16: a step whose trial pair passes the similarity test and is already in
\* visited leaves visited unchanged and ends the grow_ranges call at once:
\* no further step is taken for the seed, leaves is what it was when the
\* call started, and the pairs the call pushed to visited before stay there.
C16_Abort ==
    /\ [][(pc = "grow" /\ PassesAt(position)
             /\ Contains(visited, TrialAt(position)))
            => /\ visited' = visited
               /\ leaves' = leaves
               /\ leaves' = leaves_in
               /\ outcome' = "Aborted"
               /\ pc' # "grow"]_vars
    /\ [](KeepsEarlier(visited_in, visited))

\* A call aborted after it had itself pushed pairs to visited.
C16_Witness ==
    /\ outcome = "Aborted"
    /\ Len(visited) > Len(visited_in)
    /\ leaves = leaves_in
    /\ Len(leaves) >= 1

\* C17: a round of the loop of grow_ranges tries the start side first and
\* then, unless the start step aborted, the end side, from the ranges the
\* start step left; unless the end step aborts, the loop runs another round
\* exactly when both steps of the round grew, and otherwise stops and
\* appends the current ranges to leaves.
C17_LoopProtocol ==
    [][/\ (pc = "scan" /\ pc' = "grow" => position' = "Start")
       /\ (pc = "grow" /\ position = "Start" =>
             /\ trial' \in {NoTrial, TrialAt("Start")}
             /\ leaves' = leaves
             /\ (outcome' # "Aborted" =>
                   /\ pc' = "grow"
                   /\ position' = "End"
                   /\ <<i', j'>> = <<i, j>>))
       /\ (pc = "grow" /\ position = "End" =>
             /\ trial' \in {NoTrial, TrialAt("End")}
             /\ (outcome' # "Aborted" =>
                   LET grew_start == test = "true"
                       grew_end   == range1' # range1
                   IN  /\ (grew_start /\ grew_end) <=>
                            (pc' = "grow" /\ position' = "Start"
                               /\ <<i', j'>> = <<i, j>>)
                       /\ (grew_start /\ grew_end) => leaves' = leaves
                       /\ ~(grew_start /\ grew_end) =>
                            /\ pc' # "grow"
                            /\ outcome' = "Leaf"
                            /\ leaves' = Append(leaves, <<range1', range2'>>)))]_vars

\* A second round has begun, in a scan that already has a leaf.
C17_Witness ==
    /\ pc = "grow"
    /\ position = "Start"
    /\ Round = 2
    /\ Len(leaves) >= 1

\* The range inner lies inside the range outer.
Inside(inner, outer) ==
    outer.start <= inner.start /\ inner.end <= outer.end

\* Some leaf contains the pair p, range by range.
Covered(p) ==
    \E k \in 1..Len(leaves) :
        Inside(p[1], leaves[k][1]) /\ Inside(p[2], leaves[k][2])

\* The non-adjacent seeds grow_ranges has been called on and has finished.
SeedsDone ==
    { <<LineRange(p[1], p[1]), LineRange(p[2], p[2])>> :
        p \in { q \in (0..n_lines - 1) \X (0..n_lines - 1) :
                  /\ q[2] - q[1] >= 2
                  /\ SeedSimilar(raw_lines, q[1], q[2], thres)
                  /\ \/ pc \in {"done", "exit"}
                     \/ q[1] < i
                     \/ (q[1] = i /\ q[2] < j) } }

\* C18: between grow_ranges calls, every pair of visited and every
\* non-adjacent seed already handled lies inside some leaf.
C18_Coverage ==
    pc # "grow" => \A p \in Pairs(visited) \cup SeedsDone : Covered(p)

\* A call pushed two pairs to visited and then aborted.
C18_Witness ==
    /\ pc = "scan"
    /\ outcome = "Aborted"
    /\ Len(visited) >= Len(visited_in) + 2
    /\ \A p \in Pairs(visited) : Covered(p)

\* C19: the entries of visited are pairwise distinct, and each spans at
\* least two lines per range and passes the aggregate similarity test.
C19_VisitedDistinct ==
    /\ \A a, b \in 1..Len(visited) : a # b => visited[a] # visited[b]
    /\ \A k \in 1..Len(visited) :
          /\ RangeLen(visited[k][1]) >= 1
          /\ RangeLen(visited[k][2]) >= 1
          /\ StrictlySimilar(visited[k])

\* A step found its passing trial pair in a visited of several pairs and
\* did not push it again.
C19_Witness ==
    /\ outcome = "Aborted"
    /\ test = "true"
    /\ Len(visited) >= 3
    /\ Cardinality({ k \in 1..Len(visited) : visited[k] = trial }) = 1

\* The pair p keeps the offset of the seed (a, b) and contains its lines.
KeepsOffset(p, a, b) ==
    /\ p[2].start - p[1].start = b - a
    /\ p[2].end - p[1].end = b - a
    /\ p[1].start < p[2].start
    /\ p[1].start <= a /\ a <= p[1].end
    /\ p[2].start <= b /\ b <= p[2].end

\* C20: while grow_ranges runs on the seed (i, j), the current ranges, every
\* pair it pushes to visited and the leaf it pushes keep the offset j - i,
\* range1 contains line i and range2 line j.
C20_OffsetKept ==
    /\ [](i < j /\ (pc = "grow" => KeepsOffset(<<range1, range2>>, i, j)))
    /\ [][pc = "grow" =>
            /\ \A k \in (Len(visited) + 1)..Len(visited') :
                  KeepsOffset(visited'[k], i, j)
            /\ \A k \in (Len(leaves) + 1)..Len(leaves') :
                  KeepsOffset(leaves'[k], i, j)]_vars

\* A leaf of three or more lines per range at an offset of three or more.
C20_Witness ==
    /\ outcome = "Leaf"
    /\ RangeLen(LastLeaf[1]) >= 2
    /\ LastLeaf[2].start - LastLeaf[1].start >= 3
    /\ Contains(visited, LastLeaf)

====
